---- MODULE Spec2Model ----
(***************************************************************************)
(* Model of src/graphql/schema/collection/getCollectionGqlType.ts:         *)
(* the memoized getter of a collection's GraphQL object type, the type     *)
(* shell (name, isTypeOf, interfaces) and the lazy `fields` thunk that     *)
(* assembles the id field, the declared fields, the hook fields, the tail  *)
(* relation fields and the head relation connection fields.                *)
(*                                                                         *)
(* Calls are executed by a small stack machine: a frame is either a call   *)
(* of getCollectionGqlType (lookup, construct, store) or one evaluation of *)
(* a type's `fields` thunk, which itself calls getCollectionGqlType.       *)
(***************************************************************************)
EXTENDS Integers, Sequences, FiniteSets, TLC

\* ------------------------------------------------------------------ bounds

\* Most relations the inventory registers.
MaxRelations == 2
\* Most runs of createCollectionGqlType for one (buildToken, collection).
MaxSerial == 2
\* Rows of a tail collection a condition is evaluated on.
NumRows == 3

\* ---------------------------------------------------------- build contexts

BuildTokens == {"X1", "X2"}
Collections == {"A", "B"}

\* buildToken.options.nodeIdFieldName
NodeIdFieldName(buildToken) ==
    IF buildToken = "X1" THEN [case |-> "raw", words |-> <<"__id">>]
                         ELSE [case |-> "raw", words |-> <<"nodeId">>]

\* Whether buildToken._hooks.objectTypeFieldEntries is registered.
HasObjectTypeFieldEntriesHook(buildToken) == buildToken = "X1"

\* collection.name
CollectionName(collection) ==
    IF collection = "A" THEN <<"posts">> ELSE <<"people">>

\* collection.type.name
TypeName(collection) ==
    IF collection = "A" THEN <<"post">> ELSE <<"person">>

\* Array.from(collection.type.fields.entries()): [fieldName, field.type]
TypeFields(collection) ==
    IF collection = "A"
    THEN << <<"title", "text">>, <<"author_id", "integer">> >>
    ELSE << <<"name", "text">> >>

\* Whether collection.primaryKey is set.
primaryKey(collection) == collection = "A"

\* relation.name of the i-th relation of the inventory
RelationNames == <<"r1", "r2", "r3", "r4">>

\* The relations an inventory may register: head collection key's
\* collection, tail collection, and whether the relation implements
\* getTailConditionFromHeadValue.
RelationShapes ==
    [head : Collections, tail : Collections, hasTailCondition : BOOLEAN]

RECURSIVE SeqsUpTo(_, _)
SeqsUpTo(S, n) ==
    IF n = 0 THEN {<<>>}
    ELSE LET shorter == SeqsUpTo(S, n - 1)
         IN  shorter \cup {Append(s, x) : s \in {t \in shorter : Len(t) = n - 1}, x \in S}

VARIABLES
    paginator,    \* collection -> whether collection.paginator is set
    relations,    \* inventory.getRelations(), in registry order
    cache,        \* memoize2's table of _getCollectionGqlType
    created,      \* runs of createCollectionGqlType per (buildToken, collection)
    returned,     \* every instance a getCollectionGqlType call has returned
    forced,       \* results of the `fields` thunks forced so far
    events,       \* what construction / thunk evaluation has done, per type
    stack,        \* the call stack
    probe         \* last runtime call of isTypeOf / getPaginatorInput

vars == <<paginator, relations, cache, created, returned,
          forced, events, stack, probe>>

config == <<paginator, relations>>

\* ------------------------------------------------------------------ naming

\* formatName.type: the type naming policy applied to a name.
formatName_type(words) == [case |-> "pascal", words |-> words]

\* formatName.field: the field naming policy applied to a name.
formatName_field(words) == [case |-> "camel", words |-> words]

\* `${tailCollection.name}-by-${relation.name}`
HeadRelationFieldName(relation, i) ==
    CollectionName(relation.tail) \o <<"by", RelationNames[i]>>

\* -------------------------------------------------------------- type shell

NoName == [case |-> "", words |-> <<>>]

NoType ==
    [buildToken |-> "", collection |-> "", serial |-> 0,
     name |-> NoName, interfaces |-> <<>>]

\* getNodeInterfaceType(buildToken)
getNodeInterfaceType(buildToken) == [interface |-> "Node", buildToken |-> buildToken]


\* createCollectionGqlType with `fields: buildObject(...)` in place of the
\* thunk `fields: () => buildObject(...)`.
createCollectionGqlType_eager(buildToken, collection, serial) ==
    [type |->
        [buildToken |-> buildToken, collection |-> collection, serial |-> serial,
         name |-> formatName_type(TypeName(collection)),
         interfaces |-> IF primaryKey(collection)
                        THEN <<getNodeInterfaceType(buildToken)>>
                        ELSE <<>>],
     lazyFields |-> FALSE,
     effects |-> IF primaryKey(collection) THEN {"getNodeInterfaceType"} ELSE {}]

\* createCollectionGqlType with inventory.getRelations() read outside the
\* thunk.
createCollectionGqlType_hoisted(buildToken, collection, serial) ==
    [type |->
        [buildToken |-> buildToken, collection |-> collection, serial |-> serial,
         name |-> formatName_type(TypeName(collection)),
         interfaces |-> IF primaryKey(collection)
                        THEN <<getNodeInterfaceType(buildToken)>>
                        ELSE <<>>],
     lazyFields |-> TRUE,
     effects |-> {"getRelations"} \cup
                 (IF primaryKey(collection) THEN {"getNodeInterfaceType"} ELSE {})]

\* What one run of createCollectionGqlType yields: the new GraphQLObjectType
\* (a fresh object: the serial-th one built for these arguments), whether
\* its config's `fields` is a thunk, and the calls the construction itself
\* makes.
createCollectionGqlType(buildToken, collection, serial) ==
    [type |->
        [buildToken |-> buildToken, collection |-> collection, serial |-> serial,
         name |-> formatName_type(TypeName(collection)),
         interfaces |-> IF primaryKey(collection)
                        THEN <<getNodeInterfaceType(buildToken)>>
                        ELSE <<>>],
     lazyFields |-> TRUE,
     effects |-> IF primaryKey(collection) THEN {"getNodeInterfaceType"} ELSE {}]

\* Runtime values handed to isTypeOf: null, or an object that may carry
\* value[$$nodeValueCollection]; `shapes` are the collections whose
\* type.isTypeOf accepts the value.
Values ==
    [isNull : {FALSE}, nodeValueCollection : Collections \cup {"undefined"},
     shapes : SUBSET Collections]
    \cup [isNull : {TRUE}, nodeValueCollection : {"undefined"},
          shapes : SUBSET Collections]

\* collection.type.isTypeOf(value): the entity type's own shape check.
type_isTypeOf(collection, value) == collection \in value.shapes

\* isTypeOf that trusts a matching tag without the shape check.
isTypeOf_tagOnly(collection, value) ==
    IF ~value.isNull /\ value.nodeValueCollection # "undefined"
    THEN value.nodeValueCollection = collection
    ELSE type_isTypeOf(collection, value)

\* The isTypeOf of the type built for `collection`.
isTypeOf(collection, value) ==
    (IF ~value.isNull /\ value.nodeValueCollection # "undefined"
     THEN value.nodeValueCollection = collection
     ELSE TRUE)
    /\ type_isTypeOf(collection, value)

\* ------------------------------------------------------------ field entries

NoRef == [kind |-> "", collection |-> "", detail |-> "", instance |-> NoType]

\* A falsy element of an entries array (`primaryKey && [...]`, `null`).
Falsy == [name |-> NoName, stream |-> "", type |-> NoRef, relation |-> 0]

\* new GraphQLNonNull(GraphQLID)
NonNullID == [NoRef EXCEPT !.kind = "NonNull", !.detail = "ID"]

\* getGqlType(buildToken, field.type, false)
getGqlType(buildToken, fieldType, input) ==
    [NoRef EXCEPT !.kind = IF input THEN "input" ELSE "output", !.detail = fieldType]

\* The id field added whether or not there is a primary key.
IdFieldEntries_always(buildToken, collection) ==
    << [name |-> NodeIdFieldName(buildToken), stream |-> "id",
        type |-> NonNullID, relation |-> 0] >>

\* The first array handed to buildObject: the id field, or a falsy element.
IdFieldEntries(buildToken, collection) ==
    << IF primaryKey(collection)
       THEN [name |-> NodeIdFieldName(buildToken), stream |-> "id",
             type |-> NonNullID, relation |-> 0]
       ELSE Falsy >>

\* The second array: one entry per field of collection.type.fields.
DeclaredFieldEntries(buildToken, collection) ==
    [k \in 1..Len(TypeFields(collection)) |->
        [name |-> formatName_field(<<TypeFields(collection)[k][1]>>),
         stream |-> "field",
         type |-> getGqlType(buildToken, TypeFields(collection)[k][2], FALSE),
         relation |-> 0]]

\* buildToken._hooks.objectTypeFieldEntries(type, buildToken)
objectTypeFieldEntries(collection, buildToken) ==
    << [name |-> formatName_field(<<"computed">> \o TypeName(collection)),
        stream |-> "hook",
        type |-> [NoRef EXCEPT !.kind = "output", !.detail = "hook"],
        relation |-> 0] >>

\* The third array: the hook's entries, or none without a hook.
HookFieldEntries(buildToken, collection) ==
    IF HasObjectTypeFieldEntriesHook(buildToken)
    THEN objectTypeFieldEntries(collection, buildToken)
    ELSE <<>>

\* One entry of createCollectionRelationTailGqlFieldEntries: the field of
\* the tail collection holding the head value of relation i.
TailRelationFieldEntry(i, headType) ==
    [name |-> formatName_field(TypeName(relations[i].head) \o <<"by", RelationNames[i]>>),
     stream |-> "tail",
     type |-> [NoRef EXCEPT !.kind = "object", !.collection = relations[i].head,
                            !.instance = headType],
     relation |-> i]

\* The least j >= i such that relation j has `collection` as its tail
\* (Len(relations) + 1 when there is none).
RECURSIVE NextTailRelation(_, _)
NextTailRelation(collection, i) ==
    IF i > Len(relations) THEN Len(relations) + 1
    ELSE IF relations[i].tail = collection THEN i
    ELSE NextTailRelation(collection, i + 1)

\* The filter comparing the relation's tail collection.
IsHeadRelationOf_tail(relation, collection) == relation.tail = collection

\* relation => relation.headCollectionKey.collection === collection
IsHeadRelationOf(relation, collection) == relation.head = collection

\* The guard with && in place of ||.
CannotProvideField_both(relation) ==
    ~paginator[relation.tail] /\ ~relation.hasTailCondition

\* !tailPaginator || !relation.getTailConditionFromHeadValue
CannotProvideField(relation) ==
    ~paginator[relation.tail] \/ ~relation.hasTailCondition

\* createConnectionGqlField(buildToken, tailPaginator, config): a connection
\* field over the tail collection's paginator.
createConnectionGqlField(buildToken, tailCollection) ==
    [NoRef EXCEPT !.kind = "connection", !.collection = tailCollection,
                  !.detail = "condition"]

\* The .map callback of the head relations: a field entry, or null.
HeadRelationFieldEntry(buildToken, i) ==
    IF CannotProvideField(relations[i])
    THEN Falsy
    ELSE [name |-> formatName_field(HeadRelationFieldName(relations[i], i)),
          stream |-> "head",
          type |-> createConnectionGqlField(buildToken, relations[i].tail),
          relation |-> i]

\* The indexes, in registry order, of the relations .filter keeps.
HeadRelationIndexes(collection) ==
    SelectSeq([i \in 1..Len(relations) |-> i],
              LAMBDA i : IsHeadRelationOf(relations[i], collection))

\* The fifth array: inventory.getRelations().filter(...).map(...)
HeadRelationFieldEntries(buildToken, collection) ==
    [k \in 1..Len(HeadRelationIndexes(collection)) |->
        HeadRelationFieldEntry(buildToken, HeadRelationIndexes(collection)[k])]

\* buildObject(...entriesArrays): the entries of the arrays in argument
\* order, falsy elements dropped.
buildObject(ids, declared, hooks, tails, heads) ==
    SelectSeq(ids \o declared \o hooks \o tails \o heads, LAMBDA e : e # Falsy)

\* The arrays handed to buildObject with the head relations before the tail
\* relations.
fieldsThunk_headsFirst(buildToken, collection, tailEntries) ==
    buildObject(IdFieldEntries(buildToken, collection),
                DeclaredFieldEntries(buildToken, collection),
                HookFieldEntries(buildToken, collection),
                HeadRelationFieldEntries(buildToken, collection),
                tailEntries)

\* The value of the `fields` thunk, given the entries that
\* createCollectionRelationTailGqlFieldEntries returned.
fieldsThunk(buildToken, collection, tailEntries) ==
    buildObject(IdFieldEntries(buildToken, collection),
                DeclaredFieldEntries(buildToken, collection),
                HookFieldEntries(buildToken, collection),
                tailEntries,
                HeadRelationFieldEntries(buildToken, collection))

\* --------------------------------------------------------------- conditions

Rows == 1..NumRows
HeadValues == {1, 2}
TrueCondition == Rows

\* args.condition: undefined, or a condition input object.
Undefined == {"undefined"}
ConditionInputs == SUBSET {"even", "small"}
Args == [condition : ConditionInputs \cup {Undefined}]

\* relation.getTailConditionFromHeadValue(headValue): the tail rows whose
\* key for relation i points at headValue.
getTailConditionFromHeadValue(i, headValue) ==
    {row \in Rows : ((row + i) % 2) + 1 = headValue}

\* fromGqlInput of getConditionGqlType: the condition an input stands for.
conditionFromGqlInput(input) ==
    IF input = Undefined THEN TrueCondition
    ELSE {row \in Rows : /\ ("even" \in input => row % 2 = 0)
                         /\ ("small" \in input => row <= 2)}

\* conditionHelpers.and
conditionHelpers_and(a, b) == a \cap b

\* getPaginatorInput that drops the condition of the args.
getPaginatorInput_ignoresArgs(i, headValue, args) ==
    getTailConditionFromHeadValue(i, headValue)

\* The getPaginatorInput of the connection field of relation i.
getPaginatorInput(i, headValue, args) ==
    conditionHelpers_and(getTailConditionFromHeadValue(i, headValue),
                         conditionFromGqlInput(args.condition))


\* -------------------------------------------------------------- call frames

\* memoize2(fn): a call of the memoized function with arguments (a, b):
\* look (a, b) up in the table; on a miss run fn(a, b), store, return.
memoize2(a, b) ==
    [op |-> "call", buildToken |-> a, collection |-> b, memoized |-> TRUE,
     key |-> <<a, b>>, pc |-> "lookup", type |-> NoType, i |-> 0, acc |-> <<>>]

\* The memoization keyed by the collection alone.
_getCollectionGqlType_perCollection(buildToken, collection) ==
    [memoize2(buildToken, collection) EXCEPT !.key = <<"X1", collection>>]

\* const _getCollectionGqlType = memoize2(createCollectionGqlType)
_getCollectionGqlType(buildToken, collection) == memoize2(buildToken, collection)

\* getCollectionGqlType calling createCollectionGqlType without the
\* memoization.
getCollectionGqlType_unmemoized(buildToken, collection) ==
    [memoize2(buildToken, collection) EXCEPT !.memoized = FALSE]

\* function getCollectionGqlType (buildToken, collection)
getCollectionGqlType(buildToken, collection) ==
    _getCollectionGqlType(buildToken, collection)

\* One evaluation of the `fields` thunk of `type`: the arguments of
\* buildObject are evaluated in order; the tail relation entries are the
\* ones that call getCollectionGqlType.
FieldsFrame(type) ==
    [op |-> "fields", buildToken |-> type.buildToken, collection |-> type.collection,
     memoized |-> FALSE, key |-> <<type.buildToken, type.collection>>,
     pc |-> "tailSelf", type |-> type, i |-> 0, acc |-> <<>>]

\* What the thunk does before the tail relation entries: it resolves the
\* declared fields' types and runs the hook.
FieldsStartEvents(type) ==
    {[type |-> type, what |-> "getGqlType"] : k \in 1..Len(TypeFields(type.collection))}
    \cup {[type |-> type, what |-> "objectTypeFieldEntries"] :
            k \in {1} \cap {IF HasObjectTypeFieldEntriesHook(type.buildToken) THEN 1 ELSE 0}}

NoProbe ==
    [op |-> "", buildToken |-> "", collection |-> "", relation |-> 0,
     value |-> [isNull |-> TRUE, nodeValueCollection |-> "undefined", shapes |-> {}],
     headValue |-> 0, args |-> [condition |-> Undefined],
     result |-> FALSE, input |-> {}]

Top == stack[Len(stack)]
Pop == SubSeq(stack, 1, Len(stack) - 1)

\* The instances handed out so far.
KnownTypes == UNION {returned[k] : k \in DOMAIN returned}

\* ------------------------------------------------------------------- state

Init ==
    /\ paginator \in [Collections -> BOOLEAN]
    /\ relations \in SeqsUpTo(RelationShapes, MaxRelations)
    /\ cache = [k \in BuildTokens \X Collections |-> NoType]
    /\ created = [k \in BuildTokens \X Collections |-> 0]
    /\ returned = [k \in BuildTokens \X Collections |-> {}]
    /\ forced = {}
    /\ events = {}
    /\ stack = <<>>
    /\ probe = NoProbe

\* A call of `callee`'s arguments returns `type` to the frames `callers`:
\* to a consumer (no frame), to a construction in progress, or to the tail
\* relation entries of a thunk under evaluation, which go on.
Return(callers, callee, type) ==
    /\ returned' = [returned EXCEPT ![<<callee.buildToken, callee.collection>>] = @ \cup {type}]
    /\ stack' =
         IF callers = <<>> THEN <<>>
         ELSE LET caller == callers[Len(callers)]
                  resumed ==
                    IF caller.op # "fields" THEN caller
                    ELSE IF caller.pc = "tailSelf"
                    THEN [caller EXCEPT !.pc = "tailRelations",
                                        !.i = NextTailRelation(caller.collection, 1)]
                    ELSE [caller EXCEPT
                            !.acc = Append(@, TailRelationFieldEntry(caller.i, type)),
                            !.i = NextTailRelation(caller.collection, caller.i + 1)]
              IN  Append(SubSeq(callers, 1, Len(callers) - 1), resumed)

\* The frames on the stack call `callee`. memoize2 looks its key up: on a
\* hit the stored value is returned; on a miss the call is entered and
\* createCollectionGqlType runs next.
Call(callee) ==
    IF callee.memoized /\ cache[callee.key] # NoType
    THEN Return(stack, callee, cache[callee.key])
    ELSE /\ stack' = Append(stack, callee)
         /\ UNCHANGED returned

\* A consumer calls getCollectionGqlType(buildToken, collection).
CallGetCollectionGqlType(buildToken, collection) ==
    /\ stack = <<>>
    /\ Call(getCollectionGqlType(buildToken, collection))
    /\ UNCHANGED <<config, cache, created, forced, events, probe>>

\* A consumer (type.getFields()) invokes the `fields` thunk of a type it holds.
ForceFields(type) ==
    /\ stack = <<>>
    /\ type \in KnownTypes
    /\ stack' = <<FieldsFrame(type)>>
    /\ events' = events \cup {[type |-> type, what |-> "forced"]}
                        \cup FieldsStartEvents(type)
    /\ UNCHANGED <<config, cache, created, returned, forced, probe>>

\* An entered call runs createCollectionGqlType(buildToken, collection).
Construct ==
    /\ stack # <<>>
    /\ Top.op = "call" /\ Top.pc = "lookup"
    /\ created[<<Top.buildToken, Top.collection>>] < MaxSerial
    /\ LET k == <<Top.buildToken, Top.collection>>
           built == createCollectionGqlType(Top.buildToken, Top.collection, created[k] + 1)
           frame == [Top EXCEPT !.pc = "constructed", !.type = built.type]
       IN  /\ created' = [created EXCEPT ![k] = @ + 1]
           /\ events' = events
                \cup {[type |-> built.type, what |-> e] : e \in built.effects}
                \cup (IF built.lazyFields THEN {} ELSE FieldsStartEvents(built.type))
           /\ stack' = IF built.lazyFields
                       THEN Append(Pop, frame)
                       ELSE Append(Append(Pop, frame), FieldsFrame(built.type))
    /\ UNCHANGED <<config, cache, returned, forced, probe>>

\* memoize2 after the run: store the result under the key, return it.
MemoStore ==
    /\ stack # <<>>
    /\ Top.op = "call" /\ Top.pc = "constructed"
    /\ cache' = IF Top.memoized THEN [cache EXCEPT ![Top.key] = Top.type] ELSE cache
    /\ Return(Pop, Top, Top.type)
    /\ UNCHANGED <<config, created, forced, events, probe>>

\* createCollectionRelationTailGqlFieldEntries(buildToken, collection)
\* first asks for the type of the collection itself.
FieldsCallSelf ==
    /\ stack # <<>>
    /\ Top.op = "fields" /\ Top.pc = "tailSelf"
    /\ Call(getCollectionGqlType(Top.buildToken, Top.collection))
    /\ events' = events \cup {[type |-> Top.type, what |-> "getCollectionGqlType"]}
    /\ UNCHANGED <<config, cache, created, forced, probe>>

\* ... then, for each relation whose tail is the collection, for the type
\* of the relation's head collection.
FieldsCallHead ==
    /\ stack # <<>>
    /\ Top.op = "fields" /\ Top.pc = "tailRelations"
    /\ Top.i <= Len(relations)
    /\ Call(getCollectionGqlType(Top.buildToken, relations[Top.i].head))
    /\ events' = events \cup {[type |-> Top.type, what |-> "getCollectionGqlType"]}
    /\ UNCHANGED <<config, cache, created, forced, probe>>

\* The head relations are mapped and buildObject assembles the field map.
FieldsBuild ==
    /\ stack # <<>>
    /\ Top.op = "fields" /\ Top.pc = "tailRelations"
    /\ Top.i > Len(relations)
    /\ forced' = forced \cup
         {[type |-> Top.type,
           fields |-> fieldsThunk(Top.buildToken, Top.collection, Top.acc)]}
    /\ events' = events \cup {[type |-> Top.type, what |-> "getRelations"]}
    /\ stack' = Pop
    /\ UNCHANGED <<config, cache, created, returned, probe>>

Next ==
    \/ \E buildToken \in BuildTokens, collection \in Collections :
         CallGetCollectionGqlType(buildToken, collection)
    \/ \E type \in KnownTypes : ForceFields(type)
    \/ Construct
    \/ MemoStore
    \/ FieldsCallSelf
    \/ FieldsCallHead
    \/ FieldsBuild

Spec == Init /\ [][Next]_vars


\* ------------------------------------------------------------ runtime calls

\* GraphQL asks the type built for (buildToken, collection) whether a
\* value belongs to it.
IsTypeOfCall(buildToken, collection, value) ==
    /\ probe = NoProbe
    /\ probe' = [NoProbe EXCEPT !.op = "isTypeOf", !.buildToken = buildToken,
                                !.collection = collection, !.value = value,
                                !.result = isTypeOf(collection, value)]
    /\ UNCHANGED <<config, cache, created, returned, forced, events, stack>>

\* A connection field generated for a head relation of `collection`
\* computes its paginator input for a head value and the field's args.
GetPaginatorInputCall(buildToken, collection, k, headValue, args) ==
    /\ probe = NoProbe
    /\ k \in 1..Len(HeadRelationFieldEntries(buildToken, collection))
    /\ LET entry == HeadRelationFieldEntries(buildToken, collection)[k]
       IN  /\ entry # Falsy
           /\ probe' = [NoProbe EXCEPT
                          !.op = "getPaginatorInput", !.buildToken = buildToken,
                          !.collection = collection, !.relation = entry.relation,
                          !.headValue = headValue, !.args = args,
                          !.input = getPaginatorInput(entry.relation, headValue, args)]
    /\ UNCHANGED <<config, cache, created, returned, forced, events, stack>>

\* The runtime call is over.
RuntimeCallDone ==
    /\ probe # NoProbe
    /\ probe' = NoProbe
    /\ UNCHANGED <<config, cache, created, returned, forced, events, stack>>

NextRuntime ==
    \/ RuntimeCallDone
    \/ \E buildToken \in BuildTokens, collection \in Collections, value \in Values :
         IsTypeOfCall(buildToken, collection, value)
    \/ \E buildToken \in BuildTokens, collection \in Collections, k \in 1..MaxRelations,
          headValue \in HeadValues, args \in Args :
         GetPaginatorInputCall(buildToken, collection, k, headValue, args)

SpecRuntime == Init /\ [][NextRuntime]_vars


\* ------------------------------------------------------------------ claims

Keys == BuildTokens \X Collections

KeyOf(type) == <<type.buildToken, type.collection>>

\* The entries of `fields` that satisfy Test, in order.
Entries(fields, Test(_)) == SelectSeq(fields, Test)

\* C1: every call getCollectionGqlType(X, C), top-level or made while a
\* thunk is evaluated, has returned one and the same instance, the one built
\* for (X, C), and createCollectionGqlType has run at most once for (X, C).
C1_SameInstance ==
    \A k \in Keys :
        /\ created[k] <= 1
        /\ Cardinality(returned[k]) <= 1
        /\ \A t \in returned[k] : KeyOf(t) = k /\ t.serial = 1

\* A thunk under evaluation has asked for its own type and got the instance
\* the consumer holds.
C1_Witness ==
    /\ stack # <<>>
    /\ Top.op = "fields" /\ Top.pc = "tailRelations"
    /\ returned[Top.key] = {Top.type}
    /\ created[Top.key] = 1

\* Two collections relate to each other in both directions with usable
\* relations.
MutuallyRelated(a, b) ==
    /\ a # b
    /\ paginator[a] /\ paginator[b]
    /\ \E i \in 1..Len(relations) :
         relations[i].head = a /\ relations[i].tail = b /\ relations[i].hasTailCondition
    /\ \E i \in 1..Len(relations) :
         relations[i].head = b /\ relations[i].tail = a /\ relations[i].hasTailCondition

\* The tail relations of `collection` from index i on.
TailCount(collection, i) ==
    Cardinality({j \in i..Len(relations) : relations[j].tail = collection})

\* What is left to do in frame k of the stack: a variant of the evaluation.
FrameMeasure(k) ==
    LET f == stack[k]
        remaining == IF f.pc = "tailSelf" THEN 2 + TailCount(f.collection, 1)
                     ELSE 1 + TailCount(f.collection, f.i)
    IN  IF f.op = "call" THEN (IF f.pc = "lookup" THEN 2 ELSE 1)
        ELSE 4 * remaining - (IF k < Len(stack) THEN 3 ELSE 0)

RECURSIVE MeasureFrom(_)
MeasureFrom(k) == IF k > Len(stack) THEN 0 ELSE FrameMeasure(k) + MeasureFrom(k + 1)

Measure == MeasureFrom(1)

C2_Bounded ==
    /\ Len(stack) <= 2
    /\ \A k \in 1..Len(stack) : Len(stack[k].acc) <= Len(relations)
    /\ \A r \in forced : \A b \in Collections :
         MutuallyRelated(r.type.collection, b) =>
            \E k \in 1..Len(r.fields) :
                r.fields[k].stream = "head" /\ r.fields[k].type.collection = b

C2_Progress == stack # <<>> => Measure' < Measure

\* C2: the evaluation of a `fields` thunk never nests deeper than one call,
\* makes at most 1 + Len(relations) calls of getCollectionGqlType, and every
\* step of it decreases a natural-number variant, so it terminates; and for
\* mutually related collections A and B the forced field list of type(A) has
\* a connection field over B.
C2_MutualTerminates == []C2_Bounded /\ [][C2_Progress]_vars

\* Both thunks of a mutually related pair have been forced.
C2_Witness ==
    \E x \in BuildTokens :
        /\ MutuallyRelated("A", "B")
        /\ \E r \in forced : KeyOf(r.type) = <<x, "A">>
        /\ \E r \in forced : KeyOf(r.type) = <<x, "B">>
        /\ stack = <<>>

\* C3: a type of a collection without primary key declares no interface and
\* its forced field list has no identifier field; with a primary key it
\* declares exactly the node interface and its forced field list has exactly
\* one identifier field, named options.nodeIdFieldName, of type non-null ID.
C3_NodeIffPrimaryKey ==
    /\ \A t \in KnownTypes :
         t.interfaces = IF primaryKey(t.collection)
                        THEN <<getNodeInterfaceType(t.buildToken)>> ELSE <<>>
    /\ \A r \in forced :
         LET ids == Entries(r.fields, LAMBDA e : e.stream = "id")
             named == Entries(r.fields, LAMBDA e : e.name = NodeIdFieldName(r.type.buildToken))
         IN  IF primaryKey(r.type.collection)
             THEN /\ Len(ids) = 1 /\ named = ids
                  /\ ids[1].type.kind = "NonNull" /\ ids[1].type.detail = "ID"
             ELSE ids = <<>> /\ named = <<>>

\* The thunks of a type with and of a type without primary key are forced.
C3_Witness ==
    /\ \E r \in forced : primaryKey(r.type.collection)
    /\ \E r \in forced : ~primaryKey(r.type.collection)

\* C4: relation i contributes a head relation connection field to type(C)
\* iff its head collection is C, its tail collection has a paginator and it
\* can derive a tail condition; the field is named by the field naming
\* policy applied to <tail collection name>-by-<relation name>; every other
\* relation contributes nothing, and nothing else is a head relation field.
C4_HeadRelationFields ==
    \A r \in forced :
        LET heads == Entries(r.fields, LAMBDA e : e.stream = "head")
            usable == {i \in 1..Len(relations) :
                         /\ relations[i].head = r.type.collection
                         /\ paginator[relations[i].tail]
                         /\ relations[i].hasTailCondition}
        IN  /\ Len(heads) = Cardinality(usable)
            /\ \A i \in 1..Len(relations) :
                 LET mine == Entries(heads, LAMBDA e : e.relation = i)
                 IN  IF i \in usable
                     THEN /\ Len(mine) = 1
                          /\ mine[1].name =
                               formatName_field(CollectionName(relations[i].tail)
                                                \o <<"by", RelationNames[i]>>)
                          /\ mine[1].type.kind = "connection"
                          /\ mine[1].type.collection = relations[i].tail
                     ELSE mine = <<>>

\* A forced type whose collection heads a usable relation and an unusable one.
C4_Witness ==
    \E r \in forced :
        /\ Len(relations) = 2
        /\ relations[1].head = r.type.collection /\ relations[2].head = r.type.collection
        /\ relations[1].tail = relations[2].tail
        /\ paginator[relations[1].tail]
        /\ ~relations[1].hasTailCondition /\ relations[2].hasTailCondition
        /\ \E k \in 1..Len(r.fields) : r.fields[k].stream = "head"


\* C5: the paginator input a generated connection field computes for head
\* value h and args admits exactly the rows that the relation's condition
\* derived from h and the condition parsed from args.condition both admit;
\* without a `condition` in args it is the relation's condition itself.
C5_PaginatorInputIsAnd ==
    probe.op = "getPaginatorInput" =>
        /\ \A row \in Rows :
             row \in probe.input <=>
                /\ row \in getTailConditionFromHeadValue(probe.relation, probe.headValue)
                /\ row \in conditionFromGqlInput(probe.args.condition)
        /\ probe.args.condition = Undefined =>
             probe.input = getTailConditionFromHeadValue(probe.relation, probe.headValue)

\* A connection field was called with a condition that excludes a row the
\* relation's condition admits.
C5_Witness ==
    /\ probe.op = "getPaginatorInput"
    /\ probe.args.condition # Undefined
    /\ probe.input # getTailConditionFromHeadValue(probe.relation, probe.headValue)
    /\ probe.input # {}

StreamRank(stream) ==
    CASE stream = "id" -> 1
      [] stream = "field" -> 2
      [] stream = "hook" -> 3
      [] stream = "tail" -> 4
      [] stream = "head" -> 5
      [] OTHER -> 0

\* C6: a forced field list holds the identifier field, then the declared
\* fields in the order of the collection's fields, then the hook's entries
\* (none without a hook), then the tail relation fields, then the head
\* relation fields in registry order; forcing a thunk again yields the same
\* list.
C6_FieldOrder ==
    /\ \A r \in forced :
        LET fs == r.fields
            declared == Entries(fs, LAMBDA e : e.stream = "field")
            hooks == Entries(fs, LAMBDA e : e.stream = "hook")
            relationFields == Entries(fs, LAMBDA e : e.stream \in {"tail", "head"})
        IN  /\ \A i, j \in 1..Len(fs) :
                 i < j => /\ StreamRank(fs[i].stream) >= 1
                          /\ StreamRank(fs[i].stream) <= StreamRank(fs[j].stream)
            /\ Len(declared) = Len(TypeFields(r.type.collection))
            /\ \A k \in 1..Len(declared) :
                 declared[k].name = formatName_field(<<TypeFields(r.type.collection)[k][1]>>)
            /\ Len(hooks) = IF HasObjectTypeFieldEntriesHook(r.type.buildToken) THEN 1 ELSE 0
            /\ \A i, j \in 1..Len(relationFields) :
                 (i < j /\ relationFields[i].stream = relationFields[j].stream)
                    => relationFields[i].relation < relationFields[j].relation
    /\ \A r1, r2 \in forced : r1.type = r2.type => r1.fields = r2.fields

\* A forced list with a field of every stream, two of them head relation
\* fields, whose thunk is being evaluated once more.
C6_Witness ==
    /\ stack # <<>> /\ Top.op = "fields"
    /\ \E r \in forced :
         /\ r.type = Top.type
         /\ {r.fields[k].stream : k \in 1..Len(r.fields)} = {"id", "field", "hook", "head"}
         /\ Len(Entries(r.fields, LAMBDA e : e.stream = "head")) = 2

\* C7 as stated: a value tagged with another collection is refused, a value
\* tagged with C belongs to the type, an untagged value belongs to it
\* exactly when the entity type's shape check accepts it.
C7_AsStated ==
    probe.op = "isTypeOf" =>
        LET tag == probe.value.nodeValueCollection
        IN  /\ (tag # "undefined" /\ tag # probe.collection) => ~probe.result
            /\ tag = probe.collection => probe.result
            /\ tag = "undefined" =>
                 (probe.result <=> type_isTypeOf(probe.collection, probe.value))

\* C7: a value tagged with another collection is refused; a value tagged
\* with C, and a value with no tag, belongs to the type exactly when the
\* entity type's shape check accepts it.
C7_IsTypeOf ==
    probe.op = "isTypeOf" =>
        LET tag == probe.value.nodeValueCollection
        IN  /\ (tag # "undefined" /\ tag # probe.collection) => ~probe.result
            /\ (tag = probe.collection \/ tag = "undefined") =>
                 (probe.result <=> type_isTypeOf(probe.collection, probe.value))

\* isTypeOf refused a value tagged with its own collection.
C7_Witness ==
    /\ probe.op = "isTypeOf"
    /\ probe.value.nodeValueCollection = probe.collection
    /\ ~probe.result

\* C8: whenever the `fields` thunk of a type is or has been evaluated, the
\* type is the entry of the memoization table for its (buildToken,
\* collection), and no call for that pair made from inside a thunk of the
\* type misses the table.
C8_CachedBeforeThunk ==
    /\ \A k \in 1..Len(stack) :
         stack[k].op = "fields" =>
            /\ cache[stack[k].key] = stack[k].type
            /\ \A j \in (k + 1)..Len(stack) :
                 ~(stack[j].op = "call" /\ KeyOf(stack[j]) = KeyOf(stack[k]))
    /\ \A r \in forced : cache[KeyOf(r.type)] = r.type
    /\ \A e \in events : e.what # "getNodeInterfaceType" => cache[KeyOf(e.type)] = e.type

\* The thunk of a type is evaluated for the first time and is about to ask
\* for its own type.
C8_Witness ==
    /\ stack # <<>>
    /\ Top.op = "fields" /\ Top.pc = "tailSelf"
    /\ \A r \in forced : r.type # Top.type
    /\ cache[Top.key] = Top.type

ThunkWork == {"getGqlType", "objectTypeFieldEntries", "getRelations", "getCollectionGqlType"}

\* C9: a type whose thunk no consumer has forced has resolved no field type,
\* run no hook, read no relation and requested no collection type, and while
\* createCollectionGqlType runs nothing is called on top of it.
C9_ConstructionIsLazy ==
    /\ \A e \in events :
         e.what \in ThunkWork => [type |-> e.type, what |-> "forced"] \in events
    /\ \A k \in 1..Len(stack) : stack[k].op = "call" => k = Len(stack)

\* Both types of a build token are built, one with a node interface, and no
\* thunk has been forced.
C9_Witness ==
    /\ stack = <<>>
    /\ \E x \in BuildTokens : cache[<<x, "A">>] # NoType /\ cache[<<x, "B">>] # NoType
    /\ \E e \in events : e.what = "getNodeInterfaceType"
    /\ \A e \in events : e.what # "forced"

\* The build token on whose behalf the stack is running.
ActiveTokens == {stack[k].buildToken : k \in 1..Len(stack)}
                    \cup {stack'[k].buildToken : k \in 1..Len(stack')}

C10_Distinct ==
    \A c \in Collections : \A x1, x2 \in BuildTokens :
        x1 # x2 => \A t1 \in returned[<<x1, c>>] : \A t2 \in returned[<<x2, c>>] : t1 # t2

C10_Frame ==
    \A x \in BuildTokens : \A c \in Collections :
        x \notin ActiveTokens =>
            /\ cache'[<<x, c>>] = cache[<<x, c>>]
            /\ returned'[<<x, c>>] = returned[<<x, c>>]
            /\ created'[<<x, c>>] = created[<<x, c>>]

\* C10: the instances returned for one collection under two build tokens
\* are distinct, and no step taken for one build token changes the table
\* entry, the returned instances or the constructions of another.
C10_KeyedByTokenAndCollection == []C10_Distinct /\ [][C10_Frame]_vars

\* One collection has a type under each build token.
C10_Witness ==
    \E c \in Collections :
        /\ returned[<<"X1", c>>] # {}
        /\ returned[<<"X2", c>>] # {}
        /\ \E r \in forced : KeyOf(r.type) = <<"X1", c>>

====
